---- MODULE Spec2Model ----
(***************************************************************************)
(* Model of src/src/app/page.tsx: the effect of the Home component, which  *)
(* renders the provinces of china.json into an SVG scene, builds the       *)
(* name -> feature index, runs the demo tour (Jiangxi -> Shanghai) and     *)
(* returns a cleanup that empties the container.                           *)
(*                                                                         *)
(* Every run of the effect ("mount") owns its own closure: svg, scene,     *)
(* layers, provinces, byName and the tour.  All mounts share the container *)
(* element (root).  JavaScript runs one task at a time, so every action    *)
(* below is one task: the effect body up to its first await, a timer       *)
(* callback with the continuation it resumes, a transition frame, the      *)
(* cleanup.                                                                *)
(*                                                                         *)
(* Province names are written in ASCII: "Jiangxi" stands for the string    *)
(* of line 186, "Shanghai" for the one of line 187.                        *)
(***************************************************************************)
EXTENDS Integers, Sequences, FiniteSets, TLC

\* ------------------------------------------------------------------ bounds
\* Longest collection of a single run of the effect, longest collection when
\* the effect runs again, and how many times it runs then.
MaxFeatures == 3
MaxRemountFeatures == 2
MaxMounts == 2

\* ------------------------------------------------------- program constants
width == 960
height == 600
moveMs == 1600

HighlightFill == "#93c5fd"
DefaultFill == "#e5e7eb"
JIANGXI == "Jiangxi"
SHANGHAI == "Shanghai"

\* --------------------------------------------------------- JS numbers
\* A number is <<n, d>> with d >= 0 in lowest terms; d = 0 encodes the
\* non-finite values: <<1,0>> Infinity, <<-1,0>> -Infinity, <<0,0>> NaN.
\* The operations follow IEEE-754 on these values (signed zeros apart).
RECURSIVE GCD(_, _)
GCD(a, b) == IF b = 0 THEN a ELSE GCD(b, a % b)

Abs(n) == IF n < 0 THEN -n ELSE n
Sign(n) == IF n > 0 THEN 1 ELSE IF n < 0 THEN -1 ELSE 0

Num(n, d) ==
  IF d = 0 THEN <<Sign(n), 0>>
  ELSE LET g == GCD(Abs(n), Abs(d))
           s == IF d < 0 THEN -1 ELSE 1
       IN  <<(s * n) \div g, (s * d) \div g>>

Whole(n) == <<n, 1>>
NaN == <<0, 0>>
Infinity == <<1, 0>>
IsNaN(a) == a = NaN
IsFinite(a) == a[2] # 0
IsInf(a) == a[2] = 0 /\ a[1] # 0

Mul(a, b) == Num(a[1] * b[1], a[2] * b[2])
Div(a, b) == Num(a[1] * b[2], a[2] * b[1])
Sub(a, b) ==
  IF IsNaN(a) \/ IsNaN(b) THEN NaN
  ELSE IF IsInf(a) /\ IsInf(b) THEN (IF a = b THEN NaN ELSE a)
  ELSE Num(a[1] * b[2] - b[1] * a[2], a[2] * b[2])
Add(a, b) == Sub(a, <<-b[1], b[2]>>)
Leq(a, b) == a[1] * b[2] <= b[1] * a[2]
MathMin(a, b) ==
  IF IsNaN(a) \/ IsNaN(b) THEN NaN
  ELSE IF IsInf(a) /\ IsInf(b) THEN (IF a[1] <= b[1] THEN a ELSE b)
  ELSE IF Leq(a, b) THEN a ELSE b

\* ------------------------------------------------------------ the input
\* properties.name of a feature: a string, or absent (typeof "undefined").
Str(s) == [type |-> "string", val |-> s]
Undefined == [type |-> "undefined", val |-> ""]
NameValues == {Str(JIANGXI), Str(SHANGHAI), Str("Beijing"), Str(""), Undefined}
Names == {JIANGXI, SHANGHAI, "Beijing", "", "Atlantis"}

\* Screen-space geometry of the i-th feature as d3's geoPath reports it:
\* bounds <<x0, y0, x1, y1>> and centroid <<cx, cy>>.  The third and fourth
\* shapes are degenerate (a point on the y axis, a vertical segment).
Geometries ==
  << [bounds |-> <<100, 100, 300, 200>>, centroid |-> <<210, 160>>],
     [bounds |-> <<700, 300, 760, 421>>, centroid |-> <<730, 350>>],
     [bounds |-> <<0, 500, 0, 500>>,     centroid |-> <<0, 500>>],
     [bounds |-> <<400, 50, 400, 80>>,   centroid |-> <<400, 65>>] >>

GeometryAt(i) == Geometries[((i - 1) % Len(Geometries)) + 1]

RECURSIVE SeqsUpTo(_, _)
SeqsUpTo(S, n) ==
  IF n = 0 THEN {<< >>}
  ELSE LET shorter == SeqsUpTo(S, n - 1)
       IN  shorter \cup {Append(s, x) : s \in {t \in shorter : Len(t) = n - 1}, x \in S}

\* A collection: feature i is [id |-> i, name |-> its properties.name].
Collections(n) ==
  {[i \in 1..Len(ns) |-> [id |-> i, name |-> ns[i]]] : ns \in SeqsUpTo(NameValues, n)}

NoFeature == [id |-> 0, name |-> Undefined]
Mounts == 1..MaxMounts

VARIABLES
  features,        \* china.features ?? []           (line 32)
  nMounts,         \* how many times the effect has run
  inRoot,          \* mounts whose svg is a child of the container
  fill,            \* fill[m][i]: fill attribute of province shape i
  byName,          \* byName[m]: the index of mount m (a function on keys)
  sceneTransform,  \* transform attribute of scene of mount m
  sceneTransition, \* the scene transition of mount m: [state, target]
  linksLayer,      \* children of linksLayer of mount m
  linkDash,        \* stroke-dashoffset of the link path drawn by mount m
  pc,              \* where the tour of mount m stands
  log              \* log[m]: what mount m did, in program order

vars == <<features, nMounts, inRoot, fill, byName, sceneTransform,
          sceneTransition, linksLayer, linkDash, pc, log>>

\* ------------------------------------------------ values of the variables
Transform(k, x, y) == [k |-> k, x |-> x, y |-> y]
zoomIdentity == Transform(Whole(1), Whole(0), Whole(0))
\* The transform attribute of a scene: absent ("none"), set to t ("at"), or
\* an interpolated value on the way to t ("between").
NoTransform == [kind |-> "none", t |-> zoomIdentity]
At(t) == [kind |-> "at", t |-> t]
Between(t) == [kind |-> "between", t |-> t]

NoTransition == [state |-> "none", target |-> zoomIdentity, duration |-> 0]
EmptyMap == [k \in {} |-> NoFeature]
Entry(op, arg) == [op |-> op, arg |-> arg]

\* ------------------------------------------------------------- RegionIndex
\* Map.prototype.set / get on a Map<string, ProvinceFeature>.
byNameSetKeepFirst(m, k, f) ==
  IF k \in DOMAIN m THEN m ELSE [j \in DOMAIN m \cup {k} |-> IF j = k THEN f ELSE m[j]]
byNameSet(m, k, f) == [j \in DOMAIN m \cup {k} |-> IF j = k THEN f ELSE m[j]]
byNameGet(m, k) == IF k \in DOMAIN m THEN m[k] ELSE NoFeature

\* for (const f of features) { if (typeof n === "string") byName.set(n, f) }
RECURSIVE byNameLoop(_, _, _)
byNameLoop(fs, i, m) ==
  IF i > Len(fs) THEN m
  ELSE LET n == fs[i].name
       IN  byNameLoop(fs, i + 1,
             IF n.type = "string" THEN byNameSet(m, n.val, fs[i]) ELSE m)

byNameOf(fs) == byNameLoop(fs, 1, EmptyMap)

\* ------------------------------------------------ CameraTransformCalculator
pathBounds(f) == GeometryAt(f.id).bounds
padding == <<9, 10>>

transformFor(f) ==
  LET b  == pathBounds(f)
      dx == Whole(b[3] - b[1])
      dy == Whole(b[4] - b[2])
      k  == Mul(MathMin(Div(Whole(width), dx), Div(Whole(height), dy)), padding)
      tx == Sub(Div(Whole(width), Whole(2)), Mul(Div(Whole(b[1] + b[3]), Whole(2)), k))
      ty == Sub(Div(Whole(height), Whole(2)), Mul(Div(Whole(b[2] + b[4]), Whole(2)), k))
  IN  \* zoomIdentity.translate(tx, ty).scale(k)
      Transform(Mul(zoomIdentity.k, k),
                Add(zoomIdentity.x, Mul(zoomIdentity.k, tx)),
                Add(zoomIdentity.y, Mul(zoomIdentity.k, ty)))

\* ------------------------------------------------------------------ shapes
\* provinces.attr("fill", d => d.properties?.name === activeName ? ... : ...)
highlight(fs, activeName) ==
  [i \in 1..Len(fs) |-> IF fs[i].name = Str(activeName) THEN HighlightFill
                                                        ELSE DefaultFill]

centroid(f) == GeometryAt(f.id).centroid

\* The state one mount owns, as a record; the actions store its fields in
\* the variables.
NewMount(fs) ==
  [fill |-> [i \in 1..Len(fs) |-> DefaultFill],
   byName |-> byNameOf(fs),
   sceneTransform |-> NoTransform,
   sceneTransition |-> NoTransition,
   linksLayer |-> << >>,
   linkDash |-> "none",
   pc |-> "start",
   log |-> << >>]

\* ------------------------------------------------------------ LinkAnimator
\* Appends the link path and the two endpoint circles to linksLayer and
\* schedules the reveal of the path; returns without waiting.
drawLinkReversed(M, from, to, durationMs) ==
  LET a == centroid(to)
      b == centroid(from)
  IN  [M EXCEPT
        !.linksLayer = M.linksLayer \o
           << [tag |-> "path", from |-> a, to |-> b],
              [tag |-> "circle", from |-> a, to |-> a],
              [tag |-> "circle", from |-> b, to |-> b] >>,
        !.linkDash = "total",
        !.log = Append(M.log, Entry("drawLink", ""))]

drawLink(M, from, to, durationMs) ==
  LET a == centroid(from)
      b == centroid(to)
  IN  [M EXCEPT
        !.linksLayer = M.linksLayer \o
           << [tag |-> "path", from |-> a, to |-> b],
              [tag |-> "circle", from |-> a, to |-> a],
              [tag |-> "circle", from |-> b, to |-> b] >>,
        !.linkDash = "total",
        !.log = Append(M.log, Entry("drawLink", ""))]

\* ------------------------------------------------------------ TourSequencer
\* What the awaiting caller of focus is left in once focus has scheduled the
\* scene transition and reached `await tr.end()`.
focusNoAwait == "done"
focusAwait == "awaitFocus"

focus(M, fs, name, durationMs) ==
  LET feature == byNameGet(M.byName, name)
  IN  IF feature = NoFeature THEN M
      ELSE [M EXCEPT
             !.fill = highlight(fs, name),
             !.sceneTransition = [state |-> "scheduled",
                                  target |-> transformFor(feature),
                                  duration |-> durationMs],
             !.pc = focusAwait,
             !.log = M.log \o << Entry("highlight", name),
                                 Entry("sceneTransition", name) >>]

\* Lines 185-194: the tour from its start to `await delay(600)`.
tourStartBothMissing(M, fs) ==
  LET jiangxi  == byNameGet(M.byName, JIANGXI)
      shanghai == byNameGet(M.byName, SHANGHAI)
  IN  IF jiangxi = NoFeature /\ shanghai = NoFeature
      THEN [M EXCEPT !.pc = "done"]
      ELSE [M EXCEPT
             !.fill = highlight(fs, JIANGXI),
             !.sceneTransform = At(transformFor(jiangxi)),
             !.pc = "delay",
             !.log = M.log \o << Entry("highlight", JIANGXI),
                                 Entry("sceneAttr", JIANGXI),
                                 Entry("delay", "") >>]

tourStartAnimated(M, fs) ==
  LET jiangxi  == byNameGet(M.byName, JIANGXI)
      shanghai == byNameGet(M.byName, SHANGHAI)
  IN  IF jiangxi = NoFeature \/ shanghai = NoFeature
      THEN [M EXCEPT !.pc = "done"]
      ELSE [M EXCEPT
             !.fill = highlight(fs, JIANGXI),
             !.sceneTransition = [state |-> "scheduled",
                                  target |-> transformFor(jiangxi),
                                  duration |-> 0],
             !.pc = "delay",
             !.log = M.log \o << Entry("highlight", JIANGXI),
                                 Entry("sceneTransition", JIANGXI),
                                 Entry("delay", "") >>]

tourStart(M, fs) ==
  LET jiangxi  == byNameGet(M.byName, JIANGXI)
      shanghai == byNameGet(M.byName, SHANGHAI)
  IN  IF jiangxi = NoFeature \/ shanghai = NoFeature
      THEN [M EXCEPT !.pc = "done"]
      ELSE [M EXCEPT
             !.fill = highlight(fs, JIANGXI),
             !.sceneTransform = At(transformFor(jiangxi)),
             !.pc = "delay",
             !.log = M.log \o << Entry("highlight", JIANGXI),
                                 Entry("sceneAttr", JIANGXI),
                                 Entry("delay", "") >>]

\* Lines 196-199: the tour from the end of the delay to the await of focus.
tourMoveAwaitLink(M, fs) ==
  LET jiangxi  == byNameGet(M.byName, JIANGXI)
      shanghai == byNameGet(M.byName, SHANGHAI)
      linked   == drawLink(M, jiangxi, shanghai, moveMs)
  IN  [linked EXCEPT !.pc = "awaitLink"]

tourMove(M, fs) ==
  LET jiangxi  == byNameGet(M.byName, JIANGXI)
      shanghai == byNameGet(M.byName, SHANGHAI)
      linked   == drawLink(M, jiangxi, shanghai, moveMs)
      moved    == focus(linked, fs, SHANGHAI, moveMs)
  IN  IF moved.pc = "awaitFocus" THEN moved ELSE [moved EXCEPT !.pc = "done"]

\* -------------------------------------------------------------- container
\* root.selectAll("*").remove(): every descendant of the container is taken
\* out of its parent, so the svg leaves the container and the links leave
\* their layer.
removeNothing(R) == R
removeAll(R) ==
  [inRoot |-> {},
   linksLayer |-> [m \in Mounts |-> IF m \in R.inRoot THEN << >>
                                                     ELSE R.linksLayer[m]]]

Node(m, tag, i) == [mount |-> m, tag |-> tag, i |-> i]
\* The elements below the container.
Container ==
  UNION { {Node(m, "svg", 0), Node(m, "scene", 0), Node(m, "map", 0),
           Node(m, "links", 0)}
          \cup {Node(m, "province", i) : i \in 1..Len(features)}
          \cup {Node(m, linksLayer[m][j].tag, j) : j \in 1..Len(linksLayer[m])}
          : m \in inRoot }

\* ------------------------------------------------------------------- Init
Unmounted ==
  /\ nMounts = 0
  /\ inRoot = {}
  /\ fill = [m \in Mounts |-> << >>]
  /\ byName = [m \in Mounts |-> EmptyMap]
  /\ sceneTransform = [m \in Mounts |-> NoTransform]
  /\ sceneTransition = [m \in Mounts |-> NoTransition]
  /\ linksLayer = [m \in Mounts |-> << >>]
  /\ linkDash = [m \in Mounts |-> "none"]
  /\ pc = [m \in Mounts |-> "unmounted"]
  /\ log = [m \in Mounts |-> << >>]

Init == features \in Collections(MaxFeatures) /\ Unmounted
InitRemount == features \in Collections(MaxRemountFeatures) /\ Unmounted

Store(m, M) ==
  /\ fill' = [fill EXCEPT ![m] = M.fill]
  /\ sceneTransform' = [sceneTransform EXCEPT ![m] = M.sceneTransform]
  /\ sceneTransition' = [sceneTransition EXCEPT ![m] = M.sceneTransition]
  /\ linkDash' = [linkDash EXCEPT ![m] = M.linkDash]
  /\ pc' = [pc EXCEPT ![m] = M.pc]
  /\ log' = [log EXCEPT ![m] = M.log]

Load(m) ==
  [fill |-> fill[m], byName |-> byName[m],
   sceneTransform |-> sceneTransform[m],
   sceneTransition |-> sceneTransition[m],
   linksLayer |-> linksLayer[m], linkDash |-> linkDash[m],
   pc |-> pc[m], log |-> log[m]]

\* ---------------------------------------------------------------- actions
\* The effect body, lines 23-205, up to the first await of the tour.
Effect ==
  /\ nMounts < MaxMounts
  /\ LET m == nMounts + 1
         R == removeAll([inRoot |-> inRoot, linksLayer |-> linksLayer])
         M == tourStart(NewMount(features), features)
     IN  /\ nMounts' = m
         /\ inRoot' = R.inRoot \cup {m}
         /\ linksLayer' = [R.linksLayer EXCEPT ![m] = M.linksLayer]
         /\ byName' = [byName EXCEPT ![m] = M.byName]
         /\ Store(m, M)
  /\ UNCHANGED features

\* The timer of delay(600) fires and the tour continues to its next await.
DelayElapsed(m) ==
  /\ pc[m] = "delay"
  /\ LET M == tourMove(Load(m), features)
     IN  /\ linksLayer' = [linksLayer EXCEPT ![m] = M.linksLayer]
         /\ Store(m, M)
  /\ UNCHANGED <<features, nMounts, inRoot, byName>>

\* A frame of the scene transition: the transform is an interpolated value.
SceneFrame(m) ==
  /\ sceneTransition[m].state \in {"scheduled", "running"}
  /\ sceneTransition' = [sceneTransition EXCEPT ![m].state = "running"]
  /\ sceneTransform' = [sceneTransform EXCEPT ![m] = Between(sceneTransition[m].target)]
  /\ UNCHANGED <<features, nMounts, inRoot, fill, byName, linksLayer, linkDash, pc, log>>

\* The last frame: the transform is the target, the promise of tr.end()
\* resolves and the tour, if it awaits it, runs to its end.
SceneEnd(m) ==
  /\ sceneTransition[m].state \in {"scheduled", "running"}
  /\ sceneTransition' = [sceneTransition EXCEPT ![m].state = "ended"]
  /\ sceneTransform' = [sceneTransform EXCEPT ![m] = At(sceneTransition[m].target)]
  /\ pc' = [pc EXCEPT ![m] = IF @ = "awaitFocus" THEN "done" ELSE @]
  /\ log' = [log EXCEPT ![m] = Append(@, Entry("sceneEnd", ""))]
  /\ UNCHANGED <<features, nMounts, inRoot, fill, byName, linksLayer, linkDash>>

\* A frame of the link reveal, and its last frame (stroke-dashoffset 0).
LinkFrame(m) ==
  /\ linkDash[m] \in {"total", "partial"}
  /\ linkDash' = [linkDash EXCEPT ![m] = "partial"]
  /\ UNCHANGED <<features, nMounts, inRoot, fill, byName, sceneTransform,
                 sceneTransition, linksLayer, pc, log>>

LinkEnd(m) ==
  /\ linkDash[m] \in {"total", "partial"}
  /\ linkDash' = [linkDash EXCEPT ![m] = "zero"]
  /\ UNCHANGED <<features, nMounts, inRoot, fill, byName, sceneTransform,
                 sceneTransition, linksLayer, pc, log>>

\* The cleanup returned by the effect, lines 203-205.
Cleanup ==
  /\ nMounts >= 1
  /\ LET R == removeAll([inRoot |-> inRoot, linksLayer |-> linksLayer])
     IN  /\ inRoot' = R.inRoot
         /\ linksLayer' = R.linksLayer
  /\ UNCHANGED <<features, nMounts, fill, byName, sceneTransform,
                 sceneTransition, linkDash, pc, log>>

\* The component is mounted once.
Mount == nMounts = 0 /\ Effect

Next ==
  \/ Mount
  \/ Cleanup
  \/ \E m \in Mounts : DelayElapsed(m)
  \/ \E m \in Mounts : SceneFrame(m)
  \/ \E m \in Mounts : SceneEnd(m)
  \/ \E m \in Mounts : LinkFrame(m)
  \/ \E m \in Mounts : LinkEnd(m)

\* One run of the effect, its tour and its cleanup.
Spec == Init /\ [][Next]_vars

\* The effect runs again (remount, hot update), with or without the cleanup
\* of the earlier run in between, while earlier tours are still in flight.
NextRemount ==
  \/ Effect
  \/ Cleanup
  \/ \E m \in Mounts : DelayElapsed(m)
  \/ \E m \in Mounts : SceneFrame(m)
  \/ \E m \in Mounts : SceneEnd(m)
  \/ \E m \in Mounts : LinkFrame(m)
  \/ \E m \in Mounts : LinkEnd(m)

SpecRemount == InitRemount /\ [][NextRemount]_vars

TypeOK ==
  /\ nMounts \in 0..MaxMounts
  /\ inRoot \subseteq 1..nMounts
  /\ \A m \in Mounts : pc[m] \in {"unmounted", "delay", "awaitFocus", "done"}

\* ------------------------------------------------------- shared vocabulary
Mounted(m) == m \in 1..nMounts
jiangxiOf(m) == byNameGet(byName[m], JIANGXI)
shanghaiOf(m) == byNameGet(byName[m], SHANGHAI)
Resolved(m) == jiangxiOf(m) # NoFeature /\ shanghaiOf(m) # NoFeature
Pending(m) == sceneTransition[m].state \in {"scheduled", "running"}
Highlighted(m) == {i \in DOMAIN fill[m] : fill[m][i] = HighlightFill}
LinkPaths(m) == {j \in 1..Len(linksLayer[m]) : linksLayer[m][j].tag = "path"}
Ops(m, op) == {j \in 1..Len(log[m]) : log[m][j].op = op}
MaxOf(S) == CHOOSE x \in S : \A y \in S : y <= x
\* The names the tour has focused, in order.
RECURSIVE FocusedIn(_)
FocusedIn(l) ==
  IF l = << >> THEN << >>
  ELSE IF Head(l).op = "highlight" THEN << Head(l).arg >> \o FocusedIn(Tail(l))
  ELSE FocusedIn(Tail(l))
\* The steps of the tour whose name is in the index, in order.
ResolvableSteps(m) ==
  (IF jiangxiOf(m) # NoFeature THEN << JIANGXI >> ELSE << >>) \o
  (IF shanghaiOf(m) # NoFeature THEN << SHANGHAI >> ELSE << >>)
FiniteTransform(t) == IsFinite(t.k) /\ t.k[1] > 0 /\ IsFinite(t.x) /\ IsFinite(t.y)

\* ----------------------------------------------------------------- claims

\* C1: the second step (link, highlight of Shanghai, scene transition) begins
\* only after the camera of the first step is at its target, and while the
\* scene transition of a step has not signalled its end the tour stays
\* suspended at that step: it goes no further before the signal.
C1_StepWaitsForCamera ==
  \A m \in Mounts :
    /\ Pending(m) => pc[m] = "awaitFocus"
    /\ pc[m] = "done" /\ Resolved(m) => sceneTransition[m].state = "ended"
    /\ \A j \in Ops(m, "drawLink") \cup Ops(m, "sceneTransition") :
         \E i \in Ops(m, "sceneAttr") : i < j
    /\ \A j \in Ops(m, "sceneTransition") :
         j < Len(log[m]) => log[m][j + 1].op = "sceneEnd"

C1_Witness ==
  \E m \in Mounts :
    /\ pc[m] = "done" /\ Resolved(m)
    /\ sceneTransition[m].state = "ended"
    /\ sceneTransform[m] = At(transformFor(shanghaiOf(m)))

C3_FirstStepJumps ==
  /\ [](\A m \in Mounts :
          /\ pc[m] = "delay" =>
               /\ sceneTransform[m] = At(transformFor(jiangxiOf(m)))
               /\ sceneTransition[m] = NoTransition
          /\ log[m] # << >> =>
               /\ log[m][1] = Entry("highlight", JIANGXI)
               /\ log[m][2] = Entry("sceneAttr", JIANGXI))
  /\ [][\A m \in Mounts :
          sceneTransform[m] = NoTransform /\ sceneTransform'[m] # NoTransform
            => sceneTransform'[m] = At(transformFor(byNameGet(byName'[m], JIANGXI)))]_vars

C3_Witness ==
  \E m \in Mounts :
    /\ pc[m] = "delay"
    /\ sceneTransform[m] = At(transformFor(jiangxiOf(m)))
    /\ FiniteTransform(sceneTransform[m].t)

\* C4 as stated: once a step has resolved its target exactly one shape has
\* the highlight fill, the shape of the target of the current step, also
\* when other regions have the same name; and the highlight of a step
\* precedes its camera change.
C4_ExactlyOneHighlighted ==
  \A m \in Mounts :
    Ops(m, "highlight") # {} =>
      LET current == log[m][MaxOf(Ops(m, "highlight"))].arg
      IN  /\ Highlighted(m) = {byNameGet(byName[m], current).id}
          /\ \A j \in Ops(m, "sceneAttr") \cup Ops(m, "sceneTransition") :
               j > 1 /\ log[m][j - 1] = Entry("highlight", log[m][j].arg)

\* C5: when the tour of a mounted scene is over, the camera is at the focus
\* transform of Shanghai, Shanghai is highlighted and Jiangxi is not, and
\* the links layer holds exactly one link path, from the centroid of Jiangxi
\* to the centroid of Shanghai.
C5_TourResult ==
  \A m \in Mounts :
    pc[m] = "done" /\ Resolved(m) =>
      /\ sceneTransform[m] = At(transformFor(shanghaiOf(m)))
      /\ shanghaiOf(m).id \in Highlighted(m)
      /\ jiangxiOf(m).id \notin Highlighted(m)
      /\ m \in inRoot =>
           /\ Cardinality(LinkPaths(m)) = 1
           /\ \A j \in LinkPaths(m) :
                /\ linksLayer[m][j].from = GeometryAt(jiangxiOf(m).id).centroid
                /\ linksLayer[m][j].to = GeometryAt(shanghaiOf(m).id).centroid

C5_Witness ==
  \E m \in Mounts :
    /\ pc[m] = "done" /\ Resolved(m) /\ m \in inRoot
    /\ LinkPaths(m) # {}
    /\ jiangxiOf(m).id # shanghaiOf(m).id

\* C6 as stated: the effect on an empty collection fails: it leaves no scene
\* in the container and starts no tour.
C6_EmptyInputFails ==
  features = << >> => Container = {} /\ \A m \in Mounts : pc[m] = "unmounted"

\* C7: the cleanup leaves the container empty whenever it runs, a cleanup on
\* an empty container changes nothing, the container only ever holds
\* elements of the latest mount, right after the effect exactly its svg,
\* scene, layers and province shapes, and no step of the tour or of the
\* transitions of an earlier mount changes the container or the scene of
\* the latest one.
C7_TeardownAndRemount ==
  /\ [](\A n \in Container : n.mount = nMounts)
  /\ [][Cleanup => Container' = {}]_vars
  /\ [][Cleanup /\ Container = {} => UNCHANGED vars]_vars
  /\ [][Effect =>
          Container' = {Node(nMounts', t, 0) : t \in {"svg", "scene", "map", "links"}}
                         \cup {Node(nMounts', "province", i) : i \in 1..Len(features)}]_vars
  /\ [][\A m \in Mounts :
          m # nMounts /\ nMounts' = nMounts
            /\ (pc'[m] # pc[m] \/ sceneTransform'[m] # sceneTransform[m]
                  \/ linkDash'[m] # linkDash[m] \/ linksLayer'[m] # linksLayer[m])
            /\ ~Cleanup
          => /\ Container' = Container
             /\ fill'[nMounts] = fill[nMounts]
             /\ sceneTransform'[nMounts] = sceneTransform[nMounts]
             /\ linksLayer'[nMounts] = linksLayer[nMounts]]_vars

C7_Witness ==
  /\ nMounts >= 2
  /\ inRoot = {nMounts}
  /\ 1 \notin inRoot /\ linksLayer[1] # << >>
  /\ Container # {}

\* C8 as stated: lookup gives the last region of the collection whose name
\* is the non-empty string n, and not-found for every other n, the empty
\* string included; every indexed value's name equals its key.
C8_Original ==
  \A m \in Mounts :
    Mounted(m) =>
      /\ \A n \in Names :
           LET S == {i \in 1..Len(features) : features[i].name = Str(n)}
           IN  byNameGet(byName[m], n) =
                 IF n # "" /\ S # {} THEN features[MaxOf(S)] ELSE NoFeature
      /\ \A k \in DOMAIN byName[m] : byName[m][k].name = Str(k)

\* C8 amended: lookup gives the last region of the collection whose name is
\* the string n, the empty string included, and not-found when no region has
\* that name; regions whose name is not a string are never indexed and
\* every indexed value's name equals its key.
C8_LastStringNameWins ==
  \A m \in Mounts :
    Mounted(m) =>
      /\ \A n \in Names :
           LET S == {i \in 1..Len(features) : features[i].name = Str(n)}
           IN  byNameGet(byName[m], n) =
                 IF S # {} THEN features[MaxOf(S)] ELSE NoFeature
      /\ \A k \in DOMAIN byName[m] :
           byName[m][k].name = Str(k) /\ byName[m][k].name.type = "string"
      /\ \A i \in 1..Len(features) :
           features[i].name.type # "string" =>
             \A k \in DOMAIN byName[m] : byName[m][k] # features[i]

C8_Witness ==
  \E m \in Mounts :
    /\ Mounted(m)
    /\ "" \in DOMAIN byName[m]
    /\ \E i, j \in 1..Len(features) :
         i < j /\ features[i].name = features[j].name /\ features[i].name.type = "string"

\* C9 as stated: a suspended tour is waiting for the end of a camera
\* transition, never for anything else.
C9_Original ==
  \A m \in Mounts : pc[m] \notin {"unmounted", "done"} => Pending(m)

\* C9 amended: a tour suspends at two points only: the 600 ms timer after the
\* first step, and the end of the scene transition of the second step.  At
\* the second the link is already drawn (drawLink has returned), and nothing
\* lies between drawLink and the highlight of focus.
C9_TwoSuspensionPoints ==
  \A m \in Mounts :
    /\ pc[m] \notin {"unmounted", "done"} =>
         \/ /\ pc[m] = "delay"
            /\ log[m][Len(log[m])] = Entry("delay", "")
            /\ ~Pending(m) /\ linkDash[m] = "none"
         \/ /\ pc[m] = "awaitFocus"
            /\ Pending(m) /\ linkDash[m] # "none"
    /\ \A j \in Ops(m, "drawLink") :
         j < Len(log[m]) /\ log[m][j + 1] = Entry("highlight", SHANGHAI)

C9_Witness ==
  \E m \in Mounts :
    /\ pc[m] = "awaitFocus" /\ Pending(m)
    /\ linkDash[m] = "total" /\ LinkPaths(m) # {}
    /\ Ops(m, "delay") # {}

\* C10 as stated: every transform the camera is given or is moving to is
\* finite with a scale above zero, whatever the bounding box.
C10_TransformFinite ==
  \A m \in Mounts :
    /\ sceneTransform[m].kind # "none" => FiniteTransform(sceneTransform[m].t)
    /\ sceneTransition[m].state # "none" => FiniteTransform(sceneTransition[m].target)

====
